---- MODULE Spec2Model ----
(***************************************************************************)
(* Chat Client Controller of potato_bot (ui/static/script.js, in its two   *)
(* localized copies).  The state is the DOM the script owns (chat view,    *)
(* debug log, template selection control, the two text inputs), the        *)
(* requests its handlers have in flight, and what the last handler step    *)
(* showed to the user (alert / confirm) or wrote to the console.           *)
(*                                                                         *)
(* A string is a sequence of tokens; a token is one character or one fixed *)
(* literal of the script.  The Japanese literals are written as ASCII keys *)
(* prefixed "ja:".                                                          *)
(***************************************************************************)
EXTENDS Naturals, Sequences, FiniteSets

VARIABLES
    locale,             \* which copy of the script runs: "en" (mk1) or "ja" (mk1_japanese/mk2)
    chatMessages,       \* children of #chat-messages, in document order
    debugLog,           \* children of #debug-log, in document order
    options,            \* the option elements of #template-select
    selectedIndex,      \* 1-based index of the selected option, 0 for none
    messageInput,       \* #message-input value
    templateNameInput,  \* #template-name-input value
    reqs,               \* the fetch calls issued so far, by order of issue
    server,             \* the template server and what it has answered
    shown,              \* alert/confirm dialogs of the last handler step
    console,            \* console.error entries of the last handler step
    delivered           \* the event the last handler step ran on

vars == <<locale, chatMessages, debugLog, options, selectedIndex,
          messageInput, templateNameInput, reqs, server, shown, console, delivered>>

view == <<chatMessages, debugLog, options, selectedIndex, messageInput, templateNameInput>>

\* ---------------------------------------------------------------- bounds
MaxRequests == 3

ReqIds == 1..MaxRequests

\* ---------------------------------------------------------------- strings
Whitespace == {" ", "\t"}

RECURSIVE TrimStart(_)
TrimStart(s) ==
    IF s = <<>> THEN <<>>
    ELSE IF Head(s) \in Whitespace THEN TrimStart(Tail(s)) ELSE s

RECURSIVE TrimEnd(_)
TrimEnd(s) ==
    IF s = <<>> THEN <<>>
    ELSE IF s[Len(s)] \in Whitespace THEN TrimEnd(SubSeq(s, 1, Len(s) - 1)) ELSE s

\* variant: the value is used untrimmed
Untrimmed(s) == s

\* String.prototype.trim
Trim(s) == TrimEnd(TrimStart(s))

\* what the user may have typed in the message box
MessageTexts == { <<>>, <<" ">>, <<" ", "h", "\t">> }

\* what the user may have typed in the template name box
NameTexts == { <<>>, <<"\t", " ">>, <<" ", "u">> }

\* message texts carried by a rejected fetch or a failed decode
TransportErrors == { <<"Failed to fetch">> }
DecodeErrors == { <<"Unexpected token">> }

\* ---------------------------------------------------------------- localized literals
SystemSender ==
    IF locale = "en" THEN <<"System">> ELSE <<"ja:System">>

GenericChatError ==
    IF locale = "en" THEN <<"Sorry, I encountered an error. Please try again.">>
    ELSE <<"ja:Sorry, I encountered an error. Please try again.">>

PlaceholderText ==
    IF locale = "en" THEN <<"No templates saved">> ELSE <<"ja:No templates saved">>

EnterNamePrompt ==
    IF locale = "en" THEN <<"Please enter a name for the template.">>
    ELSE <<"ja:Please enter a name for the template.">>

NoSelectionPrompt ==
    IF locale = "en" THEN <<"No template selected.">> ELSE <<"ja:No template selected.">>

SaveErrorPrefix ==
    IF locale = "en" THEN <<"Error saving template: ">> ELSE <<"ja:Error saving template: ">>

LoadErrorPrefix ==
    IF locale = "en" THEN <<"Error loading template: ">> ELSE <<"ja:Error loading template: ">>

DeleteErrorPrefix ==
    IF locale = "en" THEN <<"Error deleting template: ">> ELSE <<"ja:Error deleting template: ">>

ResetConfirmText(name) ==
    IF locale = "en"
    THEN <<"This will wipe all current progress and reset the bot's state to the '">>
         \o name \o <<"' template. Are you sure?">>
    ELSE <<"ja:This will wipe all current progress and reset the bot's state to the template '">>
         \o name \o <<"'. Are you sure?">>

LoadConfirmText(name) ==
    IF locale = "en"
    THEN <<"This will load the '">> \o name
         \o <<"' template. Current unsaved progress will be lost. Are you sure?">>
    ELSE <<"ja:This will load the template '">> \o name
         \o <<"'. Current unsaved progress will be lost. Are you sure?">>

DeleteConfirmText(name) ==
    IF locale = "en"
    THEN <<"Are you sure you want to permanently delete the '">> \o name \o <<"' template?">>
    ELSE <<"ja:Are you sure you want to permanently delete the template '">> \o name \o <<"'?">>

\* ---------------------------------------------------------------- JSON values
\* A property value or array element: kind is "undefined", "null", "string"
\* or "array"; items holds a string's tokens or an array's strings.
Undefined == [kind |-> "undefined", items |-> <<>>]
JNullLeaf == [kind |-> "null", items |-> <<>>]
JStr(s) == [kind |-> "string", items |-> s]
JArr(a) == [kind |-> "array", items |-> a]

PropNames == {"response", "debug_log", "success", "error"}
NoProps == [p \in PropNames |-> Undefined]

\* A decoded body: a leaf plus, for an object, its properties.
JValue(leaf) == [kind |-> leaf.kind, items |-> leaf.items, props |-> NoProps]
JNull == JValue(JNullLeaf)
JObject(props) == [kind |-> "object", items |-> <<>>, props |-> props]
NoBody == JValue(Undefined)

\* value.name: a property read throws a TypeError on null
PropThrows(v) == v.kind \in {"null", "undefined"}
Prop(v, name) == IF v.kind = "object" THEN v.props[name] ELSE Undefined
NullTypeError == <<"Cannot read properties of null">>
NotAFunctionError == <<"templates.forEach is not a function">>

RECURSIVE Join(_)
Join(a) ==
    IF a = <<>> THEN <<>>
    ELSE IF Len(a) = 1 THEN a[1] ELSE a[1] \o <<",">> \o Join(Tail(a))

\* String(v), as alert() and template literals convert their argument
ToString(leaf) ==
    CASE leaf.kind = "string" -> leaf.items
      [] leaf.kind = "undefined" -> <<"undefined">>
      [] leaf.kind = "null" -> <<"null">>
      [] leaf.kind = "array" -> Join(leaf.items)
      [] OTHER -> leaf.items

\* node.textContent = v: null and undefined give the empty string
TextContent(leaf) ==
    IF leaf.kind \in {"undefined", "null"} THEN <<>> ELSE ToString(leaf)

\* new Error(v).message: no message when v is undefined
ErrorMessage(leaf) ==
    IF leaf.kind = "undefined" THEN <<>> ELSE ToString(leaf)

\* bodies a /chat response may decode to
ChatBodies ==
    { JNull,
      JObject([NoProps EXCEPT !["response"] = JStr(<<"r">>)]),
      JObject([NoProps EXCEPT !["response"] = JStr(<<"r">>),
                              !["debug_log"] = JArr(<< <<"d2">>, <<"d3">> >>)]),
      JObject([NoProps EXCEPT !["debug_log"] = JStr(<<"x">>)]) }

\* bodies a /templates response may decode to
ListBodies ==
    { JValue(JArr(<<>>)),
      JValue(JArr(<< <<"t">> >>)),
      JValue(JArr(<< <<"t">>, <<"u">> >>)),
      JNull,
      JObject([NoProps EXCEPT !["error"] = JStr(<<"boom">>)]),
      JValue(JStr(<<>>)),
      JValue(JStr(<<"x">>)) }

\* bodies a /templates/save, /templates/load or /templates/delete response may decode to
ResultBodies ==
    { JObject([NoProps EXCEPT !["success"] = JStr(<<"done">>)]),
      JObject([NoProps EXCEPT !["error"] = JStr(<<"name exists">>)]),
      JObject(NoProps),
      JNull }

\* ---------------------------------------------------------------- requests
\* what fetch() puts on the wire
ChatRequest(message) ==
    [url |-> "/chat", method |-> "POST", contentType |-> "application/json",
     key |-> "message", value |-> message]
ListRequest ==
    [url |-> "/templates", method |-> "GET", contentType |-> "",
     key |-> "", value |-> <<>>]
SaveRequest(name) ==
    [url |-> "/templates/save", method |-> "POST", contentType |-> "application/json",
     key |-> "name", value |-> name]
\* variant: reset has an endpoint of its own
LoadRequestPerAction(action, name) ==
    [url |-> IF action = "reset" THEN "/templates/reset" ELSE "/templates/load",
     method |-> "POST", contentType |-> "application/json",
     key |-> "name", value |-> name]

LoadRequest(action, name) ==
    [url |-> "/templates/load", method |-> "POST", contentType |-> "application/json",
     key |-> "name", value |-> name]
DeleteRequest(name) ==
    [url |-> "/templates/delete", method |-> "POST", contentType |-> "application/json",
     key |-> "name", value |-> name]

\* A fetch call and the handler suspended on it.  kind names the handler,
\* action the button for handleLoadReset, wire what was sent; phase is
\* "pending" while the handler awaits fetch() and response.json(), "done"
\* after it returned (nothing the script owns changes between the two awaits,
\* so they settle in one step).  Of a finished request only the tally is
\* kept: its kind, whether it succeeded, and nUser and nReply, the turns its
\* handler appended before and after the request.
NoWire == [url |-> "", method |-> "", contentType |-> "", key |-> "", value |-> <<>>]

NoReq ==
    [kind |-> "none", action |-> "none", wire |-> NoWire, phase |-> "none",
     success |-> FALSE, nUser |-> 0, nReply |-> 0]

NewReq(kind, action, wire) ==
    [NoReq EXCEPT !.kind = kind, !.action = action, !.wire = wire, !.phase = "pending"]

Issued == Cardinality({i \in ReqIds : reqs[i].phase # "none"})
NextId == Issued + 1

\* save and delete handlers still running: each may yet call loadTemplates
PendingMutations ==
    Cardinality({i \in ReqIds : reqs[i].kind \in {"save", "delete"}
                                /\ reqs[i].phase = "pending"})

\* variant: a handler issues its request only while no other is in flight
CanIssueWhenIdle(cost) ==
    /\ Issued + PendingMutations + cost <= MaxRequests
    /\ \A i \in ReqIds : reqs[i].phase # "pending"

\* room for `cost` more fetch calls within MaxRequests
CanIssue(cost) == Issued + PendingMutations + cost <= MaxRequests

\* The event a handler step runs on.  A click or submit (how names it), or
\* what the network hands to the handler suspended on request id: the fetch
\* is rejected with an error; or a response arrives, with response.ok, whose
\* body either does not decode (error) or decodes to body.
NoDelivery == [id |-> 0, how |-> "none", ok |-> FALSE, body |-> NoBody, error |-> <<>>]
UserEvent(name) == [NoDelivery EXCEPT !.how = name]
Rejected(i, e) == [NoDelivery EXCEPT !.id = i, !.how = "rejected", !.error = e]
Undecodable(i, ok, e) ==
    [NoDelivery EXCEPT !.id = i, !.how = "undecodable", !.ok = ok, !.error = e]
Decoded(i, ok, v) == [NoDelivery EXCEPT !.id = i, !.how = "decoded", !.ok = ok, !.body = v]

Deliveries(i, bodies) ==
    {Rejected(i, e) : e \in TransportErrors}
    \cup {Undecodable(i, ok, e) : ok \in BOOLEAN, e \in DecodeErrors}
    \cup {Decoded(i, ok, v) : ok \in BOOLEAN, v \in bodies}

\* How a request ended, by what the network delivered: the fetch rejected, a
\* non-success status, a body that does not decode, a body of another shape
\* than the endpoint's contract, or a success.
Outcome(d, shape) ==
    IF d.how = "rejected" THEN "rejected"
    ELSE IF ~d.ok THEN "status"
    ELSE IF d.how = "undecodable" THEN "undecodable"
    ELSE IF d.body.kind # shape THEN "malformed"
    ELSE "success"

Failures == {"rejected", "status", "undecodable", "malformed"}

\* the record of request r once its handler has returned, having appended
\* `replies` turns after the settlement d
Done(r, d, shape, replies) ==
    [NoReq EXCEPT !.kind = r.kind, !.phase = "done",
                  !.success = (Outcome(d, shape) = "success"),
                  !.nUser = r.nUser, !.nReply = r.nReply + replies]

\* ---------------------------------------------------------------- DOM helpers
Alert(text) == [type |-> "alert", text |-> text, answer |-> TRUE]
Confirm(text, answer) == [type |-> "confirm", text |-> text, answer |-> answer]
ConsoleError(label, error) == [label |-> label, error |-> error]

\* One chat turn as appendMessage builds it.
Turn(sender, message, messageClass) ==
    [sender |-> sender, text |-> TextContent(message), class |-> messageClass]

\* variant: the new turn is put above the others
appendMessagePrepends(messages, turn, by) ==
    << [sender |-> turn.sender, text |-> turn.text,
        class |-> turn.class, by |-> by] >> \o messages

\* `by` is the request whose handler appended the turn (history, not DOM).
appendMessage(messages, turn, by) ==
    Append(messages, [sender |-> turn.sender, text |-> turn.text,
                      class |-> turn.class, by |-> by])

RECURSIVE appendAll(_, _, _)
appendAll(messages, turns, by) ==
    IF turns = <<>> THEN messages
    ELSE appendAll(appendMessage(messages, Head(turns), by), Tail(turns), by)

\* the truth value of v in a condition
Truthy(leaf) ==
    ~(leaf.kind \in {"undefined", "null"} \/ (leaf.kind = "string" /\ leaf.items = <<>>))

\* Array.isArray(v)
IsArray(leaf) == leaf.kind = "array"

\* variant: the entries are added below the ones already shown
updateDebugLogAppends(logEntries) ==
    debugLog \o (IF Truthy(logEntries) /\ IsArray(logEntries)
                 THEN [k \in 1..Len(logEntries.items) |->
                          TextContent(JStr(logEntries.items[k]))]
                 ELSE <<>>)

\* Lines 68-77: the log is emptied, then one entry is added per element.
updateDebugLog(logEntries) ==
    IF Truthy(logEntries) /\ IsArray(logEntries)
    THEN [k \in 1..Len(logEntries.items) |-> TextContent(JStr(logEntries.items[k]))]
    ELSE <<>>

PlaceholderOption ==
    [value |-> PlaceholderText, text |-> PlaceholderText, disabled |-> TRUE]
NameOption(name) == [value |-> name, text |-> name, disabled |-> FALSE]

\* templates.length === 0: only arrays and strings have a length
LengthIsZero(templates) ==
    templates.kind \in {"array", "string"} /\ Len(templates.items) = 0

\* variant: the control is not emptied before it is filled
RenderTemplatesKeepsOld(templates) ==
    IF PropThrows(templates)
    THEN [options |-> options, threw |-> TRUE, error |-> NullTypeError]
    ELSE IF LengthIsZero(templates)
    THEN [options |-> options \o <<PlaceholderOption>>, threw |-> FALSE, error |-> <<>>]
    ELSE IF IsArray(templates)
    THEN [options |-> options \o [k \in 1..Len(templates.items) |->
                                     NameOption(templates.items[k])],
          threw |-> FALSE, error |-> <<>>]
    ELSE [options |-> options, threw |-> TRUE, error |-> NotAFunctionError]

\* Lines 85-98 on the decoded templates: the control is emptied first, then
\* filled; threw tells whether the block ended in the catch.
RenderTemplates(templates) ==
    IF PropThrows(templates)
    THEN [options |-> <<>>, threw |-> TRUE, error |-> NullTypeError]
    ELSE IF LengthIsZero(templates)
    THEN [options |-> <<PlaceholderOption>>, threw |-> FALSE, error |-> <<>>]
    ELSE IF IsArray(templates)
    THEN [options |-> [k \in 1..Len(templates.items) |-> NameOption(templates.items[k])],
          threw |-> FALSE, error |-> <<>>]
    ELSE [options |-> <<>>, threw |-> TRUE, error |-> NotAFunctionError]

\* The option a drop-down selects by itself when its options change: the
\* first one that is not disabled, none (0) when there is no such option.
RECURSIVE FirstEnabled(_, _)
FirstEnabled(opts, k) ==
    IF k > Len(opts) THEN 0
    ELSE IF ~opts[k].disabled THEN k ELSE FirstEnabled(opts, k + 1)

\* templateSelect.value
SelectValue ==
    IF selectedIndex = 0 THEN <<>> ELSE options[selectedIndex].value

\* templateSelect.disabled: the script never sets it
SelectDisabled == FALSE

\* the user edits a control: no handler of the script runs
Quiet == shown' = <<>> /\ console' = <<>> /\ delivered' = NoDelivery

\* ---------------------------------------------------------------- chat
\* the turn the submit handler appends before the request
SubmitTurns(message) == << Turn(<<"You">>, JStr(message), "user-message") >>

\* variant: the catch block only logs
ChatCatchLogsOnly(error) ==
    [turns |-> <<>>, setsDebug |-> FALSE, debug |-> <<>>,
     console |-> << ConsoleError("Error:", error) >>]

\* variant: the catch block shows the error it caught
ChatCatchShowsError(error) ==
    [turns |-> << Turn(SystemSender, JStr(GenericChatError \o error), "bot-message") >>,
     setsDebug |-> FALSE, debug |-> <<>>,
     console |-> << ConsoleError("Error:", error) >>]

\* variant: the catch block also empties the debug log
ChatCatchClearsLog(error) ==
    [turns |-> << Turn(SystemSender, JStr(GenericChatError), "bot-message") >>,
     setsDebug |-> TRUE, debug |-> <<>>,
     console |-> << ConsoleError("Error:", error) >>]

\* the catch block of the submit handler
ChatCatch(error) ==
    [turns |-> << Turn(SystemSender, JStr(GenericChatError), "bot-message") >>,
     setsDebug |-> FALSE, debug |-> <<>>,
     console |-> << ConsoleError("Error:", error) >>]

\* Lines 28-48 from the settlement of fetch('/chat') on: the turns appended,
\* the new debug log if it is set, and what goes to the console.
ChatThen(d) ==
    IF d.how = "rejected" THEN ChatCatch(d.error)
    ELSE IF ~d.ok THEN ChatCatch(<<"HTTP error! status: ", "500">>)
    ELSE IF d.how = "undecodable" THEN ChatCatch(d.error)
    ELSE IF PropThrows(d.body) THEN ChatCatch(NullTypeError)
    ELSE [turns |-> << Turn(<<"Potato">>, Prop(d.body, "response"), "bot-message") >>,
          setsDebug |-> TRUE, debug |-> updateDebugLog(Prop(d.body, "debug_log")),
          console |-> <<>>]

\* a /chat response with a non-success status is thrown on before its body is read
ChatDeliveries(i) ==
    {Rejected(i, e) : e \in TransportErrors}
    \cup {[NoDelivery EXCEPT !.id = i, !.how = "status"]}
    \cup {Undecodable(i, TRUE, e) : e \in DecodeErrors}
    \cup {Decoded(i, TRUE, v) : v \in ChatBodies}

TypeMessage ==
    /\ \E s \in MessageTexts : s # messageInput /\ messageInput' = s
    /\ Quiet
    /\ UNCHANGED <<locale, server, chatMessages, debugLog, options, selectedIndex,
                   templateNameInput, reqs>>

\* submit handler up to its first await
ChatSubmit ==
    LET message == Trim(messageInput) IN
    /\ shown' = <<>> /\ console' = <<>> /\ delivered' = UserEvent("submit")
    /\ IF message = <<>>
       THEN UNCHANGED <<chatMessages, messageInput, reqs>>
       ELSE /\ CanIssue(1)
            /\ chatMessages' = appendAll(chatMessages, SubmitTurns(message), NextId)
            /\ messageInput' = <<>>
            /\ reqs' = [reqs EXCEPT ![NextId] =
                          [NewReq("chat", "submit", ChatRequest(message))
                             EXCEPT !.nUser = Len(SubmitTurns(message))]]
    /\ UNCHANGED <<locale, server, debugLog, options, selectedIndex, templateNameInput>>

\* the /chat request i settles and the submit handler runs to its end
ChatSettle(i) ==
    /\ reqs[i].kind = "chat" /\ reqs[i].phase = "pending"
    /\ \E d \in ChatDeliveries(i) :
         LET then == ChatThen(d) IN
         /\ delivered' = d
         /\ chatMessages' = appendAll(chatMessages, then.turns, i)
         /\ debugLog' = IF then.setsDebug THEN then.debug ELSE debugLog
         /\ console' = then.console
         /\ reqs' = [reqs EXCEPT ![i] = Done(@, d, "object", Len(then.turns))]
    /\ shown' = <<>>
    /\ UNCHANGED <<locale, server, options, selectedIndex, messageInput, templateNameInput>>

\* ---------------------------------------------------------------- template list
\* loadTemplates() up to its first await: the fetch is issued
CallLoadTemplates(rs) ==
    [rs EXCEPT ![NextId] = NewReq("list", "refresh", ListRequest)]

\* the catch block of loadTemplates
ListCatch(error) ==
    [replace |-> FALSE, options |-> <<>>,
     console |-> << ConsoleError("Failed to load templates:", error) >>]

\* Lines 82-101 from the settlement of fetch('/templates') on: whether the
\* options are replaced and by what; response.ok is not looked at.
ListThen(d) ==
    IF d.how \in {"rejected", "undecodable"} THEN ListCatch(d.error)
    ELSE LET r == RenderTemplates(d.body) IN
         [replace |-> TRUE, options |-> r.options,
          console |-> IF r.threw THEN ListCatch(r.error).console ELSE <<>>]

\* the /templates request i settles and loadTemplates runs to its end
ListSettleOn(i, deliveries) ==
    /\ reqs[i].kind = "list" /\ reqs[i].phase = "pending"
    /\ \E d \in deliveries :
         LET then == ListThen(d) IN
         /\ delivered' = d
         /\ options' = IF then.replace THEN then.options ELSE options
         /\ selectedIndex' = IF then.replace THEN FirstEnabled(then.options, 1)
                             ELSE selectedIndex
         /\ console' = then.console
         /\ reqs' = [reqs EXCEPT ![i] = Done(@, d, "array", 0)]
    /\ shown' = <<>>
    /\ UNCHANGED <<locale, chatMessages, debugLog, messageInput, templateNameInput>>

\* request i settles in any of the ways the network allows
ListSettle(i) ==
    /\ ListSettleOn(i, Deliveries(i, ListBodies))
    /\ UNCHANGED server

\* the user picks an option of the drop-down
SelectTemplate ==
    /\ \E k \in 1..Len(options) :
         ~options[k].disabled /\ k # selectedIndex /\ selectedIndex' = k
    /\ Quiet
    /\ UNCHANGED <<locale, server, chatMessages, debugLog, options, messageInput,
                   templateNameInput, reqs>>

\* ---------------------------------------------------------------- template actions
\* throw new Error(result.error), as the catch block reads its message
ThrownMessage(result) ==
    IF PropThrows(result) THEN NullTypeError ELSE ErrorMessage(Prop(result, "error"))

\* the error the catch block of a template action receives, if the try block throws
Caught(d) ==
    IF d.how \in {"rejected", "undecodable"} THEN d.error
    ELSE IF d.ok THEN NullTypeError
    ELSE ThrownMessage(d.body)

\* the try block of a template action reaches the end of its response.ok branch
Succeeds(d) == d.how = "decoded" /\ d.ok /\ ~PropThrows(d.body)

\* variant: the input is cleared and the list refreshed after the try/catch,
\* whatever the outcome
SaveThenAlways(d) ==
    [alerts |-> IF Succeeds(d) THEN << Alert(ToString(Prop(d.body, "success"))) >>
                ELSE << Alert(SaveErrorPrefix \o Caught(d)) >>,
     clearName |-> TRUE, refresh |-> TRUE]

\* variant: save forgets to call loadTemplates()
SaveThenNoRefresh(d) ==
    IF Succeeds(d)
    THEN [alerts |-> << Alert(ToString(Prop(d.body, "success"))) >>,
          clearName |-> TRUE, refresh |-> FALSE]
    ELSE [alerts |-> << Alert(SaveErrorPrefix \o Caught(d)) >>,
          clearName |-> FALSE, refresh |-> FALSE]

\* Lines 110-126 from the settlement of fetch('/templates/save') on: what is
\* alerted, whether the name input is cleared, whether loadTemplates() is called.
SaveThen(d) ==
    IF Succeeds(d)
    THEN [alerts |-> << Alert(ToString(Prop(d.body, "success"))) >>,
          clearName |-> TRUE, refresh |-> TRUE]
    ELSE [alerts |-> << Alert(SaveErrorPrefix \o Caught(d)) >>,
          clearName |-> FALSE, refresh |-> FALSE]

\* variant: a successful load refreshes the template list like save and delete
LoadThenRefreshes(action, d) ==
    IF Succeeds(d)
    THEN [alerts |-> << Alert(ToString(Prop(d.body, "success"))) >>,
          clear |-> TRUE, refresh |-> TRUE]
    ELSE [alerts |-> << Alert(LoadErrorPrefix \o Caught(d)) >>,
          clear |-> FALSE, refresh |-> FALSE]

\* variant: a successful load leaves the chat view and the debug log alone
LoadThenKeepsView(action, d) ==
    IF Succeeds(d)
    THEN [alerts |-> << Alert(ToString(Prop(d.body, "success"))) >>,
          clear |-> FALSE, refresh |-> FALSE]
    ELSE [alerts |-> << Alert(LoadErrorPrefix \o Caught(d)) >>,
          clear |-> FALSE, refresh |-> FALSE]

\* Lines 147-163 from the settlement of fetch('/templates/load') on: what is
\* alerted, whether the chat view and the debug log are emptied, whether
\* loadTemplates() is called.
LoadThen(action, d) ==
    IF Succeeds(d)
    THEN [alerts |-> << Alert(ToString(Prop(d.body, "success"))) >>,
          clear |-> TRUE, refresh |-> FALSE]
    ELSE [alerts |-> << Alert(LoadErrorPrefix \o Caught(d)) >>,
          clear |-> FALSE, refresh |-> FALSE]

\* variant: delete forgets to call loadTemplates()
DeleteThenNoRefresh(d) ==
    IF Succeeds(d)
    THEN [alerts |-> << Alert(ToString(Prop(d.body, "success"))) >>, refresh |-> FALSE]
    ELSE [alerts |-> << Alert(DeleteErrorPrefix \o Caught(d)) >>, refresh |-> FALSE]

\* Lines 175-190 from the settlement of fetch('/templates/delete') on: what
\* is alerted, whether loadTemplates() is called.
DeleteThen(d) ==
    IF Succeeds(d)
    THEN [alerts |-> << Alert(ToString(Prop(d.body, "success"))) >>, refresh |-> TRUE]
    ELSE [alerts |-> << Alert(DeleteErrorPrefix \o Caught(d)) >>, refresh |-> FALSE]

\* variant: the name is never rejected
NeverBlocked(name) == FALSE

\* !name of the save handler
SaveBlocked(name) == name = <<>>

\* variant: only the disabled flag of the control is tested
OnlyDisabledChecked(selectedTemplate) == SelectDisabled

\* !selectedTemplate || templateSelect.disabled
NothingSelected(selectedTemplate) == selectedTemplate = <<>> \/ SelectDisabled

\* the prompt handleLoadReset puts to the user
ConfirmationText(action, selectedTemplate) ==
    IF action = "reset" THEN ResetConfirmText(selectedTemplate)
    ELSE LoadConfirmText(selectedTemplate)

\* variant: the answer of confirm() is ignored
IssueWhateverAnswer(answer, req) == << req >>

\* the fetch calls a click makes once the user has answered its confirm()
IssueOnAnswer(answer, req) == IF answer THEN << req >> ELSE <<>>

\* variant: a template action that failed sends its request again
SettleRetries(i, d, refresh) ==
    LET rs == [reqs EXCEPT ![i] = Done(@, d, "object", 0)]
    IN IF refresh THEN CallLoadTemplates(rs)
       ELSE IF Outcome(d, "object") # "success" /\ NextId <= MaxRequests
       THEN [rs EXCEPT ![NextId] = NewReq(reqs[i].kind, reqs[i].action, reqs[i].wire)]
       ELSE rs

\* reqs after request i ended on d, loadTemplates() called or not
Settle(i, d, refresh) ==
    LET rs == [reqs EXCEPT ![i] = Done(@, d, "object", 0)]
    IN IF refresh THEN CallLoadTemplates(rs) ELSE rs

TypeName ==
    /\ \E s \in NameTexts : s # templateNameInput /\ templateNameInput' = s
    /\ Quiet
    /\ UNCHANGED <<locale, server, chatMessages, debugLog, options, selectedIndex,
                   messageInput, reqs>>

\* save button click up to the first await
SaveClick ==
    LET name == Trim(templateNameInput) IN
    /\ console' = <<>> /\ delivered' = UserEvent("save")
    /\ IF SaveBlocked(name)
       THEN /\ shown' = << Alert(EnterNamePrompt) >>
            /\ UNCHANGED reqs
       ELSE /\ CanIssue(2)
            /\ shown' = <<>>
            /\ reqs' = [reqs EXCEPT ![NextId] = NewReq("save", "save", SaveRequest(name))]
    /\ UNCHANGED <<locale, server, chatMessages, debugLog, options, selectedIndex,
                   messageInput, templateNameInput>>

\* the /templates/save request i settles and the click handler runs to its end
SaveSettleOn(i, deliveries) ==
    /\ reqs[i].kind = "save" /\ reqs[i].phase = "pending"
    /\ \E d \in deliveries :
         LET then == SaveThen(d) IN
         /\ delivered' = d
         /\ shown' = then.alerts
         /\ templateNameInput' = IF then.clearName THEN <<>> ELSE templateNameInput
         /\ reqs' = Settle(i, d, then.refresh)
    /\ console' = <<>>
    /\ UNCHANGED <<locale, chatMessages, debugLog, options, selectedIndex, messageInput>>

\* request i settles in any of the ways the network allows
SaveSettle(i) ==
    /\ SaveSettleOn(i, Deliveries(i, ResultBodies))
    /\ UNCHANGED server

\* handleLoadReset up to the first await
handleLoadReset(action) ==
    LET selectedTemplate == SelectValue IN
    /\ console' = <<>> /\ delivered' = UserEvent(action)
    /\ IF NothingSelected(selectedTemplate)
       THEN /\ shown' = << Alert(NoSelectionPrompt) >>
            /\ UNCHANGED reqs
       ELSE \E answer \in BOOLEAN :
              LET sent == IssueOnAnswer(answer, LoadRequest(action, selectedTemplate)) IN
              /\ shown' = << Confirm(ConfirmationText(action, selectedTemplate), answer) >>
              /\ IF sent = <<>>
                 THEN UNCHANGED reqs
                 ELSE /\ CanIssue(1)
                      /\ reqs' = [reqs EXCEPT ![NextId] = NewReq("load", action, sent[1])]
    /\ UNCHANGED <<locale, server, chatMessages, debugLog, options, selectedIndex,
                   messageInput, templateNameInput>>

LoadClick == handleLoadReset("load")
ResetClick == handleLoadReset("reset")

\* the /templates/load request i settles and handleLoadReset runs to its end
LoadSettle(i) ==
    /\ reqs[i].kind = "load" /\ reqs[i].phase = "pending"
    /\ \E d \in Deliveries(i, ResultBodies) :
         LET then == LoadThen(reqs[i].action, d) IN
         /\ delivered' = d
         /\ shown' = then.alerts
         /\ chatMessages' = IF then.clear THEN <<>> ELSE chatMessages
         /\ debugLog' = IF then.clear THEN <<>> ELSE debugLog
         /\ reqs' = Settle(i, d, then.refresh)
    /\ console' = <<>>
    /\ UNCHANGED <<locale, server, options, selectedIndex, messageInput, templateNameInput>>

\* delete button click up to the first await
DeleteClick ==
    LET selectedTemplate == SelectValue IN
    /\ console' = <<>> /\ delivered' = UserEvent("delete")
    /\ IF NothingSelected(selectedTemplate)
       THEN /\ shown' = << Alert(NoSelectionPrompt) >>
            /\ UNCHANGED reqs
       ELSE \E answer \in BOOLEAN :
              LET sent == IssueOnAnswer(answer, DeleteRequest(selectedTemplate)) IN
              /\ shown' = << Confirm(DeleteConfirmText(selectedTemplate), answer) >>
              /\ IF sent = <<>>
                 THEN UNCHANGED reqs
                 ELSE /\ CanIssue(2)
                      /\ reqs' = [reqs EXCEPT ![NextId] = NewReq("delete", "delete", sent[1])]
    /\ UNCHANGED <<locale, server, chatMessages, debugLog, options, selectedIndex,
                   messageInput, templateNameInput>>

\* the /templates/delete request i settles and the click handler runs to its end
DeleteSettleOn(i, deliveries) ==
    /\ reqs[i].kind = "delete" /\ reqs[i].phase = "pending"
    /\ \E d \in deliveries :
         LET then == DeleteThen(d) IN
         /\ delivered' = d
         /\ shown' = then.alerts
         /\ reqs' = Settle(i, d, then.refresh)
    /\ console' = <<>>
    /\ UNCHANGED <<locale, chatMessages, debugLog, options, selectedIndex,
                   messageInput, templateNameInput>>

\* request i settles in any of the ways the network allows
DeleteSettle(i) ==
    /\ DeleteSettleOn(i, Deliveries(i, ResultBodies))
    /\ UNCHANGED server

\* ---------------------------------------------------------------- template server
\* The server behind /templates, /templates/save and /templates/delete, as
\* section 6 of the specification describes it: it holds a set of template
\* names, answers GET /templates with the names it holds, adds the name of a
\* save and removes the name of a delete, answering {success} on 2xx and
\* {error} otherwise.  It answers every request, one at a time, in any order,
\* and the responses arrive in any order.
ServerNameOrder == << <<"t">>, <<"u">> >>

\* the body of GET /templates when the server holds these names
Listing(names) ==
    LET holds(n) == n \in names IN JValue(JArr(SelectSeq(ServerNameOrder, holds)))

NoReply == [handled |-> FALSE, ok |-> FALSE, body |-> NoBody]

\* answered and arrived list the /templates requests in the order the server
\* answered them and in the order their responses reached the script
ServerIdle ==
    [templates |-> {}, replies |-> [i \in ReqIds |-> NoReply],
     answered |-> <<>>, arrived |-> <<>>]

SuccessReply(text) ==
    [handled |-> TRUE, ok |-> TRUE,
     body |-> JObject([NoProps EXCEPT !["success"] = JStr(text)])]
ErrorReply(text) ==
    [handled |-> TRUE, ok |-> FALSE,
     body |-> JObject([NoProps EXCEPT !["error"] = JStr(text)])]

\* the server after it has handled request i
Handle(i) ==
    LET name == reqs[i].wire.value IN
    CASE reqs[i].kind = "list" ->
           [server EXCEPT !.replies[i] = [handled |-> TRUE, ok |-> TRUE,
                                          body |-> Listing(server.templates)],
                          !.answered = Append(@, i)]
      [] reqs[i].kind = "save" ->
           [server EXCEPT !.templates = @ \cup {name},
                          !.replies[i] = SuccessReply(<<"saved">>)]
      [] reqs[i].kind = "delete" ->
           IF name \in server.templates
           THEN [server EXCEPT !.templates = @ \ {name},
                               !.replies[i] = SuccessReply(<<"deleted">>)]
           ELSE [server EXCEPT !.replies[i] = ErrorReply(<<"not found">>)]

\* the server handles the request i, which is in flight
ServerHandle(i) ==
    /\ reqs[i].phase = "pending" /\ reqs[i].kind \in {"list", "save", "delete"}
    /\ ~server.replies[i].handled
    /\ server' = Handle(i)
    /\ Quiet
    /\ UNCHANGED <<locale, chatMessages, debugLog, options, selectedIndex,
                   messageInput, templateNameInput, reqs>>

\* the response of the server to request i, as the script receives it
Served(i) == { Decoded(i, server.replies[i].ok, server.replies[i].body) }

ServedListSettle(i) ==
    /\ server.replies[i].handled
    /\ ListSettleOn(i, Served(i))
    /\ server' = [server EXCEPT !.arrived = Append(@, i)]

ServedSaveSettle(i) ==
    /\ server.replies[i].handled
    /\ SaveSettleOn(i, Served(i))
    /\ UNCHANGED server

ServedDeleteSettle(i) ==
    /\ server.replies[i].handled
    /\ DeleteSettleOn(i, Served(i))
    /\ UNCHANGED server

\* ---------------------------------------------------------------- specification
\* DOMContentLoaded: empty view, the initial loadTemplates() has issued its fetch
Loaded ==
    /\ chatMessages = <<>>
    /\ debugLog = <<>>
    /\ options = <<>>
    /\ selectedIndex = 0
    /\ messageInput = <<>>
    /\ templateNameInput = <<>>
    /\ reqs = [[i \in ReqIds |-> NoReq] EXCEPT ![1] = NewReq("list", "refresh", ListRequest)]
    /\ shown = <<>>
    /\ console = <<>>
    /\ delivered = NoDelivery

Next ==
    \/ TypeMessage
    \/ ChatSubmit
    \/ \E i \in ReqIds : ChatSettle(i)
    \/ \E i \in ReqIds : ListSettle(i)
    \/ SelectTemplate
    \/ TypeName
    \/ SaveClick
    \/ \E i \in ReqIds : SaveSettle(i)
    \/ LoadClick
    \/ ResetClick
    \/ \E i \in ReqIds : LoadSettle(i)
    \/ DeleteClick
    \/ \E i \in ReqIds : DeleteSettle(i)

\* the English copy (mk1) and the Japanese copy (mk1_japanese/mk2)
Init == locale = "en" /\ Loaded /\ server = ServerIdle
InitJa == locale = "ja" /\ Loaded /\ server = ServerIdle

\* the script against the template server, which holds nothing or one
\* template at the start
InitServer ==
    /\ locale = "en" /\ Loaded
    /\ \E held \in {{}, {<<"t">>}} : server = [ServerIdle EXCEPT !.templates = held]

\* saves and deletes, the server handling the requests in any order
NextServer ==
    \/ TypeName
    \/ SelectTemplate
    \/ SaveClick
    \/ DeleteClick
    \/ \E i \in ReqIds : ServerHandle(i)
    \/ \E i \in ReqIds : ServedListSettle(i)
    \/ \E i \in ReqIds : ServedSaveSettle(i)
    \/ \E i \in ReqIds : ServedDeleteSettle(i)

Spec == Init /\ [][Next]_vars
SpecJa == InitJa /\ [][Next]_vars
SpecServer == InitServer /\ [][NextServer]_vars

TypeOK ==
    /\ selectedIndex \in 0..Len(options)
    /\ Issued <= MaxRequests

\* ---------------------------------------------------------------- properties
\* request i is issued / settles in this step
Issues(i) == reqs[i].phase = "none" /\ reqs'[i].phase = "pending"
Settles(i) == reqs[i].phase = "pending" /\ reqs'[i].phase = "done"

\* s is empty or made of whitespace only
IsBlank(s) == \A k \in 1..Len(s) : s[k] \in Whitespace

\* the turns of the chat view appended by the handler of request i
TurnsBy(i, class) ==
    Cardinality({k \in 1..Len(chatMessages) :
                   chatMessages[k].by = i /\ chatMessages[k].class = class})

NeverReset == \A j \in ReqIds : reqs[j].kind # "load"

\* C1: every accepted chat submission has appended exactly one User turn by
\* the time its request is in flight and no reply turn yet; once the request
\* has settled, whatever the outcome, it has appended exactly one reply turn
\* (Bot or System) - never zero, never two.  While the view was never reset,
\* these turns are the ones in the chat view.
C1_OneUserTurnOneReplyTurn ==
    \A i \in ReqIds :
        reqs[i].kind = "chat" =>
            /\ reqs[i].nUser = 1
            /\ reqs[i].nReply = (IF reqs[i].phase = "done" THEN 1 ELSE 0)
            /\ NeverReset =>
                  /\ TurnsBy(i, "user-message") = reqs[i].nUser
                  /\ TurnsBy(i, "bot-message") = reqs[i].nReply

C1_Witness ==
    \E i, j \in ReqIds :
        /\ reqs[i].kind = "chat" /\ reqs[i].phase = "done" /\ reqs[i].success
        /\ reqs[j].kind = "chat" /\ reqs[j].phase = "done" /\ ~reqs[j].success
        /\ Len(chatMessages) = 4

\* C2: a RefreshTemplateList that fails (fetch rejected, non-success status,
\* body that does not decode, body that is not a list) leaves the options of
\* the selection control as they were and shows nothing to the user.
C2_FailedRefreshKeepsOptions ==
    [][\A i \in ReqIds :
          (reqs[i].kind = "list" /\ Settles(i) /\ Outcome(delivered', "array") \in Failures)
             => (options' = options /\ shown' = <<>>)]_vars

\* the error text a failed template action request carries to the user
ErrorTextOf(d) ==
    IF d.how \in {"rejected", "undecodable"} THEN d.error
    ELSE d.body.props["error"].items

\* a template action request failed the way the contract names: fetch
\* rejected, body that does not decode, or non-success status with {error}
ContractFailure(d) ==
    \/ d.how \in {"rejected", "undecodable"}
    \/ /\ d.how = "decoded" /\ ~d.ok /\ d.body.kind = "object"
       /\ d.body.props["error"].kind = "string"

ErrorPrefixOf(kind) ==
    CASE kind = "save" -> SaveErrorPrefix
      [] kind = "load" -> LoadErrorPrefix
      [] kind = "delete" -> DeleteErrorPrefix

\* C3: when a save, load, reset or delete request fails, the user is shown
\* one alert carrying the server's error text (or the transport error text),
\* and nothing else changes: the name input, chat view, debug log and
\* template list keep their contents and no /templates request is issued.
C3_FailedActionOnlyAlerts ==
    [][\A i \in ReqIds :
          (reqs[i].kind \in {"save", "load", "delete"} /\ Settles(i)
             /\ ContractFailure(delivered'))
             => /\ shown' = << Alert(ErrorPrefixOf(reqs[i].kind) \o ErrorTextOf(delivered')) >>
                /\ view' = view
                /\ Issued' = Issued]_vars

C3_Witness ==
    /\ delivered.how = "decoded" /\ ~delivered.ok
    /\ delivered.id \in ReqIds /\ reqs[delivered.id].kind = "save"
    /\ shown = << Alert(SaveErrorPrefix \o <<"name exists">>) >>
    /\ templateNameInput = <<" ", "u">>
    /\ Cardinality({i \in ReqIds : reqs[i].kind = "list"}) = 1

\* C4: when a load or reset request succeeds, the chat view and the debug log
\* are empty right after, the options of the selection control and the
\* selection are unchanged, and no /templates request is issued.
C4_LoadSuccessClearsViewOnly ==
    [][\A i \in ReqIds :
          (reqs[i].kind = "load" /\ Settles(i) /\ Outcome(delivered', "object") = "success")
             => /\ chatMessages' = <<>>
                /\ debugLog' = <<>>
                /\ options' = options /\ selectedIndex' = selectedIndex
                /\ Issued' = Issued]_vars

C4_Witness ==
    /\ delivered.how = "decoded" /\ delivered.ok
    /\ delivered.id \in ReqIds
    /\ reqs[delivered.id].kind = "load" /\ reqs[delivered.id].success
    /\ \E j \in ReqIds : reqs[j].kind = "chat" /\ reqs[j].nUser = 1
    /\ chatMessages = <<>> /\ debugLog = <<>> /\ options # <<>>

\* C5: the number of /templates requests issued so far is 1 (startup) plus
\* the number of save and delete requests that have completed successfully.
C5_RefreshOncePerSuccessfulMutation ==
    Cardinality({i \in ReqIds : reqs[i].kind = "list"})
      = 1 + Cardinality({i \in ReqIds : /\ reqs[i].kind \in {"save", "delete"}
                                        /\ reqs[i].phase = "done"
                                        /\ reqs[i].success})

C5_Witness ==
    /\ \E i \in ReqIds : reqs[i].kind = "delete" /\ reqs[i].phase = "done" /\ reqs[i].success
    /\ Cardinality({i \in ReqIds : reqs[i].kind = "list"}) = 2

\* C6: a load and a reset confirmed for the same selected name have put the
\* same request on the wire (endpoint, method, headers, payload) and react
\* the same way to every response; only their confirmation prompts differ.
C6_LoadAndResetAlike ==
    \A i, j \in ReqIds :
        (/\ reqs[i].kind = "load" /\ reqs[i].action = "load" /\ reqs[i].phase = "pending"
         /\ reqs[j].kind = "load" /\ reqs[j].action = "reset" /\ reqs[j].phase = "pending"
         /\ reqs[i].wire.value = reqs[j].wire.value)
        => /\ reqs[i].wire = reqs[j].wire
           /\ reqs[i].wire.url = "/templates/load"
           /\ \A d \in Deliveries(0, ResultBodies) :
                 LoadThen(reqs[i].action, d) = LoadThen(reqs[j].action, d)
           /\ ConfirmationText(reqs[i].action, reqs[i].wire.value)
                # ConfirmationText(reqs[j].action, reqs[j].wire.value)

C6_Witness ==
    \E i, j \in ReqIds :
        /\ reqs[i].kind = "load" /\ reqs[i].action = "load" /\ reqs[i].phase = "pending"
        /\ reqs[j].kind = "load" /\ reqs[j].action = "reset" /\ reqs[j].phase = "pending"
        /\ reqs[i].wire.value = reqs[j].wire.value

\* C7: with no template selected (empty control, or only the disabled
\* placeholder), a click on load, reset or delete shows the validation prompt
\* and nothing else: no confirmation is asked, no request is issued, and the
\* view is unchanged.
C7_NoSelectionBlocks ==
    [][(selectedIndex = 0 /\ delivered'.how \in {"load", "reset", "delete"})
          => /\ shown' = << Alert(NoSelectionPrompt) >>
             /\ reqs' = reqs
             /\ view' = view]_vars

C7_Witness ==
    /\ delivered.how = "delete"
    /\ options = << PlaceholderOption >> /\ selectedIndex = 0
    /\ shown = << Alert(NoSelectionPrompt) >>
    /\ Issued = 1

\* the confirmation a click on `how` asks for the selected template
PromptOf(how, name) ==
    IF how = "delete" THEN DeleteConfirmText(name) ELSE ConfirmationText(how, name)

\* C8: a /templates/load or /templates/delete request is issued only in a
\* step in which the user was asked the confirmation of that action and
\* answered yes; when the user answers no, no request is issued and the view
\* is unchanged.
C8_ConfirmBeforeRequest ==
    [][/\ \A i \in ReqIds :
            (Issues(i) /\ reqs'[i].kind \in {"load", "delete"})
               => /\ delivered'.how = reqs'[i].action
                  /\ shown' = << Confirm(PromptOf(reqs'[i].action, reqs'[i].wire.value), TRUE) >>
       /\ (\E k \in 1..Len(shown') : shown'[k].type = "confirm" /\ ~shown'[k].answer)
             => (reqs' = reqs /\ view' = view)
       /\ (delivered'.how \in {"load", "reset", "delete"} /\ selectedIndex # 0)
             => \E answer \in BOOLEAN :
                   shown' = << Confirm(PromptOf(delivered'.how, SelectValue), answer) >>]_vars

C8_Witness ==
    /\ delivered.how = "reset"
    /\ shown = << Confirm(ResetConfirmText(<<"u">>), FALSE) >>
    /\ Issued = 1
    /\ options # <<>>

\* C9: a chat submission whose text is empty or whitespace-only is a no-op:
\* no turn is appended, no request is issued, the debug log is unchanged.
C9_BlankSubmitIsNoOp ==
    [][(delivered'.how = "submit" /\ IsBlank(messageInput))
          => /\ chatMessages' = chatMessages
             /\ reqs' = reqs
             /\ debugLog' = debugLog
             /\ messageInput' = messageInput]_vars

C9_Witness ==
    /\ delivered.how = "submit"
    /\ messageInput # <<>> /\ IsBlank(messageInput)
    /\ Issued = 1 /\ chatMessages = <<>>

\* C10: a click on save with an empty or whitespace-only name shows the
\* validation prompt and issues no request; the name input, the template
\* list, the chat view and the debug log are unchanged.
C10_BlankNameBlocksSave ==
    [][(delivered'.how = "save" /\ IsBlank(templateNameInput))
          => /\ shown' = << Alert(EnterNamePrompt) >>
             /\ reqs' = reqs
             /\ view' = view]_vars

C10_Witness ==
    /\ delivered.how = "save"
    /\ templateNameInput # <<>> /\ IsBlank(templateNameInput)
    /\ shown = << Alert(EnterNamePrompt) >>
    /\ Issued = 1

\* the last step was the settlement of a request of this kind
Settled(kind) == delivered.id \in ReqIds /\ reqs[delivered.id].kind = kind

\* C11: right after a refresh whose response is a success carrying a list,
\* the options of the selection control are determined by that list alone:
\* one selectable option per name, in the order returned, value and label
\* both the name; for the empty list exactly one disabled placeholder, so
\* that no template counts as selected.  Nothing of the options shown before
\* is left.
C11_OptionsAreTheReturnedList ==
    (Settled("list") /\ delivered.how = "decoded" /\ delivered.ok
        /\ delivered.body.kind = "array")
    => LET names == delivered.body.items IN
       IF names = <<>>
       THEN /\ Len(options) = 1
            /\ options[1].disabled
            /\ options[1].text = PlaceholderText
            /\ selectedIndex = 0
            /\ SelectValue = <<>>
       ELSE /\ Len(options) = Len(names)
            /\ \A k \in 1..Len(names) :
                  /\ options[k].value = names[k]
                  /\ options[k].text = names[k]
                  /\ ~options[k].disabled
            /\ selectedIndex \in 1..Len(names)

\* a second refresh returned two names after the first had filled the control
C11_Witness ==
    /\ Settled("list") /\ delivered.how = "decoded" /\ delivered.ok
    /\ delivered.id = 3 /\ Len(delivered.body.items) = 2
    /\ reqs[1].kind = "list" /\ reqs[1].phase = "done" /\ reqs[1].success
    /\ Len(options) = 2

\* C12: right after a successful chat response the debug log is exactly the
\* entries of the response's debug_log, in order, when debug_log is present
\* and is a sequence, and empty otherwise; no entry of an earlier response
\* is left.
C12_DebugLogIsReplaced ==
    (Settled("chat") /\ delivered.how = "decoded" /\ delivered.ok
        /\ delivered.body.kind = "object")
    => LET log == delivered.body.props["debug_log"] IN
       IF log.kind = "array"
       THEN /\ Len(debugLog) = Len(log.items)
            /\ \A k \in 1..Len(log.items) : debugLog[k] = log.items[k]
       ELSE debugLog = <<>>

\* a second successful response without debug_log came after a first one
C12_Witness ==
    /\ Settled("chat") /\ delivered.how = "decoded" /\ delivered.ok
    /\ delivered.id = 3 /\ delivered.body.kind = "object"
    /\ delivered.body.props["debug_log"].kind = "undefined"
    /\ reqs[2].kind = "chat" /\ reqs[2].phase = "done" /\ reqs[2].success
    /\ debugLog = <<>>

\* the chat request whose settlement is d has failed
ChatFails(d) == Outcome(d, "object") \in Failures

\* C13: whatever the cause of a failed chat request (fetch rejected,
\* non-success status, body that does not decode, null body), the turn
\* appended is the fixed System turn with the generic message: from any state
\* with a chat request in flight, two runs that differ only in the way the
\* request fails end with the same chat view, and the view right after a
\* failure ends with that fixed turn.
C13_ChatFailuresLookAlike ==
    /\ \A i \in ReqIds :
          (reqs[i].kind = "chat" /\ reqs[i].phase = "pending")
             => \A d1, d2 \in ChatDeliveries(i) :
                   (ChatFails(d1) /\ ChatFails(d2))
                      => appendAll(chatMessages, ChatThen(d1).turns, i)
                            = appendAll(chatMessages, ChatThen(d2).turns, i)
    /\ (Settled("chat") /\ ChatFails(delivered))
          => /\ chatMessages # <<>>
             /\ chatMessages[Len(chatMessages)] =
                   [sender |-> SystemSender, text |-> GenericChatError,
                    class |-> "bot-message", by |-> delivered.id]

\* two chat requests have failed in different ways and left the same turn
C13_Witness ==
    /\ Settled("chat") /\ delivered.how = "undecodable" /\ delivered.id = 3
    /\ reqs[2].kind = "chat" /\ reqs[2].phase = "done" /\ ~reqs[2].success
    /\ \E k \in 1..Len(chatMessages) :
          /\ chatMessages[k].by = 2 /\ chatMessages[k].sender = SystemSender
          /\ chatMessages[k].text = chatMessages[Len(chatMessages)].text

\* the load/reset request j has succeeded: the view was emptied then
LoadSucceeded(j) ==
    reqs[j].kind = "load" /\ reqs[j].phase = "done" /\ reqs[j].success

\* C14 as stated: once a load/reset has succeeded, the reply to a message
\* submitted before it never appears in the cleared view, even when the
\* request of that message was still in flight: every reply turn in the view
\* stands after the User turn of its own submission, none belongs to a
\* message whose User turn the load/reset destroyed.
C14_NoReplyToClearedMessage ==
    \A i \in ReqIds :
        (reqs[i].kind = "chat" /\ TurnsBy(i, "bot-message") > 0)
           => TurnsBy(i, "user-message") > 0

\* C14 amended: a successful load/reset leaves the chat view and the debug
\* log empty, and the turns it destroyed never come back: from then on no
\* User turn of a message submitted before the load/reset was issued is in
\* the view.  What the view holds of such a message is at most the single
\* reply appended when its request, in flight across the load/reset, settled
\* afterwards.
C14_ClearedTurnsStayGone ==
    /\ (Settled("load") /\ Outcome(delivered, "object") = "success")
          => (chatMessages = <<>> /\ debugLog = <<>>)
    /\ \A j \in ReqIds :
          LoadSucceeded(j)
             => \A i \in 1..(j - 1) :
                   /\ TurnsBy(i, "user-message") = 0
                   /\ TurnsBy(i, "bot-message") <= 1
                   /\ TurnsBy(i, "bot-message") = 1 => reqs[i].phase = "done"

\* a chat request in flight across a successful load has put its reply into
\* the cleared view
C14_Witness ==
    /\ LoadSucceeded(3)
    /\ reqs[2].kind = "chat" /\ reqs[2].phase = "done"
    /\ Len(chatMessages) = 1 /\ chatMessages[1].by = 2
    /\ chatMessages[1].class = "bot-message"

\* the options that display a list of names
ListRendering(names) ==
    IF names = <<>>
    THEN << [value |-> PlaceholderText, text |-> PlaceholderText, disabled |-> TRUE] >>
    ELSE [k \in 1..Len(names) |->
             [value |-> names[k], text |-> names[k], disabled |-> FALSE]]

\* C15: the displayed options are always the rendering of the list returned
\* by the refresh that completed most recently: the options change only in
\* the step in which a refresh completes with a list, and then to the
\* rendering of that list, whole, whatever the order in which the refreshes
\* were issued.
C15_LastCompletedRefreshWins ==
    [][options' # options
          => \E i \in ReqIds :
                /\ reqs[i].kind = "list" /\ Settles(i)
                /\ delivered'.how = "decoded" /\ delivered'.body.kind = "array"
                /\ options' = ListRendering(delivered'.body.items)]_vars

\* this step is a view reset: a load/reset request settles and empties the view
ViewReset ==
    /\ \E i \in ReqIds : reqs[i].kind = "load" /\ Settles(i)
    /\ chatMessages' = <<>>

\* in the view, the reply turn of a submission stands after its User turn
ReplyAfterOwnUserTurn ==
    \A k1, k2 \in 1..Len(chatMessages) :
        (/\ chatMessages[k1].by = chatMessages[k2].by
         /\ chatMessages[k1].class = "user-message"
         /\ chatMessages[k2].class = "bot-message") => k1 < k2

\* C16: between two view resets the chat turn sequence is append-only and
\* in arrival order: a step that changes it and is not a reset adds exactly
\* one turn at the end and leaves the earlier turns and their order as they
\* were; and the reply turn of a submission always stands after that
\* submission's own User turn, also when submissions overlap.
C16_ChatViewAppendOnly ==
    [][/\ (chatMessages' # chatMessages /\ ~ViewReset)
             => /\ Len(chatMessages') = Len(chatMessages) + 1
                /\ SubSeq(chatMessages', 1, Len(chatMessages)) = chatMessages
       /\ ReplyAfterOwnUserTurn']_vars

\* two overlapping submissions, the second answered first
C16_Witness ==
    /\ Len(chatMessages) = 4
    /\ chatMessages[1].by = 2 /\ chatMessages[2].by = 3
    /\ chatMessages[3].by = 3 /\ chatMessages[4].by = 2

\* the bound on fetch calls leaves room for n more
Room(n) ==
    Cardinality({i \in ReqIds : reqs[i].phase # "none"})
      + Cardinality({i \in ReqIds : reqs[i].kind \in {"save", "delete"}
                                       /\ reqs[i].phase = "pending"})
      + n <= MaxRequests

\* this step issues exactly one request, of the given kind
IssuesOne(kind) ==
    /\ Issued' = Issued + 1
    /\ \E i \in ReqIds : Issues(i) /\ reqs'[i].kind = kind

Confirmed ==
    shown' # <<>> /\ shown'[1].type = "confirm" /\ shown'[1].answer

\* this step is a user action that passes its validation (and confirmation)
\* and so calls the endpoint of the given kind
Accepted(kind) ==
    CASE kind = "chat" -> delivered'.how = "submit" /\ ~IsBlank(messageInput)
      [] kind = "save" -> delivered'.how = "save" /\ ~IsBlank(templateNameInput)
      [] kind = "load" -> /\ delivered'.how \in {"load", "reset"}
                          /\ selectedIndex # 0 /\ Confirmed
      [] kind = "delete" -> /\ delivered'.how = "delete"
                            /\ selectedIndex # 0 /\ Confirmed

\* C18: nothing is retried.  A request to /chat, /templates/save,
\* /templates/load or /templates/delete is issued in a step exactly when the
\* step is an accepted user action of that kind (non-blank submission,
\* validated save, confirmed load, reset or delete), and then exactly one is
\* issued; the step in which a request fails issues no request at all.  So
\* the requests issued to each endpoint are as many as the accepted actions.
C18_OneRequestPerAcceptedAction ==
    [][/\ \A kind \in {"chat", "save", "load", "delete"} :
             /\ (\E i \in ReqIds : Issues(i) /\ reqs'[i].kind = kind) <=> Accepted(kind)
             /\ Accepted(kind) => IssuesOne(kind)
       /\ \A i \in ReqIds :
             (Settles(i) /\ ~reqs'[i].success) => Issued' = Issued]_vars

\* a save has failed and was not sent again; the next request is the one of
\* the submission made afterwards
C18_Witness ==
    /\ reqs[2].kind = "save" /\ reqs[2].phase = "done" /\ ~reqs[2].success
    /\ delivered.how = "submit"
    /\ reqs[3].kind = "chat" /\ reqs[3].phase = "pending"
    /\ Issued = 3

\* C20: a chat request that fails leaves the debug log as it was; the debug
\* log changes only in a step in which a chat response succeeds or a
\* load/reset succeeds - never on a chat failure, a refresh of the template
\* list, a save, a delete, or a user action.
C20_DebugLogFrame ==
    [][/\ \A i \in ReqIds :
             (reqs[i].kind = "chat" /\ Settles(i) /\ ChatFails(delivered'))
                => debugLog' = debugLog
       /\ debugLog' # debugLog
             => \E i \in ReqIds :
                   /\ Settles(i)
                   /\ \/ reqs[i].kind = "chat" /\ ~ChatFails(delivered')
                      \/ reqs[i].kind = "load" /\ Outcome(delivered', "object") = "success"]_vars

\* a chat request has failed while the log of an earlier response is shown
C20_Witness ==
    /\ Settled("chat") /\ ChatFails(delivered)
    /\ debugLog = << <<"d2">>, <<"d3">> >>

\* no request is in flight
Quiescent == \A i \in ReqIds : reqs[i].phase # "pending"

\* every refresh issued has succeeded
AllRefreshesSucceeded == \A i \in ReqIds : reqs[i].kind = "list" => reqs[i].success

\* the template names the selection control offers
DisplayedNames == {options[k].value : k \in {n \in 1..Len(options) : ~options[n].disabled}}

\* the names of a /templates response body
NamesOf(body) == {body.items[k] : k \in 1..Len(body.items)}

====
